---- MODULE Spec2Model ----
(***************************************************************************)
(* A model of wg-quick-go's wgctl package (src/wg.go): Config.Up and the   *)
(* two reconcilers syncAddress and syncRoutes acting on the kernel's       *)
(* per-interface state through netlink, the key codec (serializeKey,       *)
(* ParseKey) and the configuration template (wgtypeTemplateSpec).          *)
(*                                                                         *)
(* The kernel is the environment.  Every netlink / wireguardctrl call is   *)
(* one step; it can fail for a reason outside the program (recorded in     *)
(* `faulted`), or for a reason the kernel's own rules give (EEXIST on      *)
(* adding what is there, ESRCH on deleting what is not, EINVAL on a route  *)
(* whose destination has host bits set).  The connected routes the kernel  *)
(* adds by itself when an address is assigned are left out: kRoutes holds  *)
(* what RouteAdd put there and what the initial state gives.               *)
(***************************************************************************)
EXTENDS Integers, Sequences, FiniteSets, TLC

VARIABLES
    kLink,              \* kernel: interface name -> "absent" | "down" | "up"
    kAddrs,             \* kernel: interface name -> set of addresses on it
    kRoutes,            \* kernel: interface name -> routes of the main table through it
    cfg,                \* pass -> the *Config the pass was given
    iface,              \* pass -> the interface name the pass was given
    entry,              \* pass -> the function the caller invoked
    pc,                 \* pass -> position in the code
    run,                \* pass -> how many times the caller has invoked entry
    err,                \* pass -> the error the last invocation returned
    faulted,            \* pass -> the environment failed one of its kernel calls
    log,                \* pass -> the kernel calls of the current invocation
    atStart,            \* pass -> the interface's addresses and routes when the
                        \*         current invocation began
    presentAddresses,   \* pass -> syncAddress's map   (wg.go:170)
    presentRoutes,      \* pass -> syncRoutes's map    (wg.go:216)
    todo,               \* pass -> keys the removal loop's range has yet to visit
    addrIdx,            \* pass -> index of `range cfg.Address`        (wg.go:175)
    peerIdx,            \* pass -> index of `range cfg.Peers`          (wg.go:221)
    ipIdx,              \* pass -> index of `range peer.AllowedIPs`    (wg.go:222)
    keyText,            \* the text handed to ParseKey
    keyResult,          \* what ParseKey returned for it
    rendered            \* what MarshalText returned for cfg[1]

kernel == <<kLink, kAddrs, kRoutes>>
inputs == <<cfg, iface, entry, atStart>>
loops  == <<presentAddresses, presentRoutes, todo, addrIdx, peerIdx, ipIdx>>
pure   == <<keyText, keyResult, rendered>>
vars   == <<kLink, kAddrs, kRoutes, cfg, iface, entry, pc, run, err, faulted, log, atStart,
           presentAddresses, presentRoutes, todo, addrIdx, peerIdx, ipIdx,
           keyText, keyResult, rendered>>

-----------------------------------------------------------------------------
(* Bounds of the model.                                                    *)

MaxAddrs == 2           \* longest cfg.Address
MaxPeers == 2           \* longest cfg.Peers
MaxAllowedIPs == 3      \* most AllowedIPs of a configuration, all peers together
MaxRuns == 2            \* invocations in succession of a reconciler
MaxText == 4            \* longest text handed to ParseKey
KeyLen == 2             \* bytes of a wgtypes.Key (32 in wgtypes), scaled down

Procs == {1, 2}
Ifaces == {"wg0", "wg1"}

Set(f, p, v) == [f EXCEPT ![p] = v]

SeqsUpTo(S, n) == UNION {[1..k -> S] : k \in 0..n}

Pow2(n) == 2 ^ n

Min(a, b) == IF a < b THEN a ELSE b
Max(a, b) == IF a > b THEN a ELSE b

-----------------------------------------------------------------------------
(* net.IP, net.IPNet and their text.                                       *)

HexDigits == <<"0", "1", "2", "3", "4", "5", "6", "7", "8", "9",
               "a", "b", "c", "d", "e", "f">>

RECURSIVE Hex(_)
Hex(n) == IF n < 16 THEN HexDigits[n + 1]
          ELSE Hex(n \div 16) \o HexDigits[(n % 16) + 1]

\* net.IP.String: dotted decimal for IPv4; for IPv6 the groups in hex with the
\* run of zero groups between the first and the last written "::" (the only
\* IPv6 addresses of the model are of that shape).
IPString(fam, ip) ==
    IF fam = 4
    THEN ToString(ip[1]) \o "." \o ToString(ip[2]) \o "." \o
         ToString(ip[3]) \o "." \o ToString(ip[4])
    ELSE Hex(ip[1]) \o "::" \o Hex(ip[8])

\* net.IPNet.String: the IP as stored (it is NOT masked), "/", the prefix length.
IPNetString(n) == IPString(n.fam, n.ip) \o "/" \o ToString(n.bits)

\* The string of a nil *net.IPNet, in a Go whose String checks for nil.
NilString == "<nil>"

\* ip & mask for a prefix length: the network number of an IPv4 net.
MaskIP(ip, bits) ==
    [i \in 1..4 |->
        LET b == Max(0, Min(8, bits - 8 * (i - 1)))
        IN  ip[i] - (ip[i] % Pow2(8 - b))]

Network(n) == [n EXCEPT !.ip = MaskIP(n.ip, n.bits)]

HostBits(n) == Network(n) # n

IPNet4(a, b, c, d, bits) == [fam |-> 4, ip |-> <<a, b, c, d>>, bits |-> bits]

\* The IPv4 addresses of the model, and its IPv6 address.
Addrs == {IPNet4(10, 0, 0, 2, 24), IPNet4(192, 168, 1, 1, 24), IPNet4(172, 16, 0, 1, 16)}

Addrs6 == {[fam |-> 6, ip |-> <<64768, 0, 0, 0, 0, 0, 0, 2>>, bits |-> 64]}

\* The allowed-IP prefixes of the model: the default route, two networks, and
\* the first network written with host bits set.
Prefixes == {IPNet4(0, 0, 0, 0, 0), IPNet4(10, 0, 0, 0, 24),
             IPNet4(10, 0, 0, 1, 24), IPNet4(10, 1, 0, 0, 24)}

\* What the kernel can hold as a route destination: networks.
Networks == {Network(n) : n \in Prefixes}

DefaultRoute == IPNet4(0, 0, 0, 0, 0)

\* The texts net.ParseCIDR accepts, with the IP and prefix length each denotes.
CIDRs == Addrs \cup Addrs6 \cup Prefixes \cup Networks

ParsesAsCIDR(s) == \E n \in CIDRs : IPNetString(n) = s

\* netlink.ParseAddr (wg.go:194): the IPNet of the text, IP as written.
ParseAddr(s) == CHOOSE n \in CIDRs : IPNetString(n) = s

\* net.ParseCIDR's second result (wg.go:242): the network, IP masked.
ParseCIDR(s) == Network(CHOOSE n \in CIDRs : IPNetString(n) = s)

-----------------------------------------------------------------------------
(* Errors and the log of kernel calls.                                     *)

Nil == "nil"

Error(call, code) == call \o ": " \o code

\* The code of a failure the environment causes.
Fault == "EIO"

Call(call, arg, res) == [call |-> call, arg |-> arg, res |-> res]

Logged(p, call, arg, res) == Set(log, p, Append(log[p], Call(call, arg, res)))

Mutations == {"AddrAdd", "AddrDel", "RouteAdd", "RouteDel"}

\* The mutating calls of a log, in order.
RECURSIVE MutationsOf(_)
MutationsOf(l) ==
    IF l = <<>> THEN <<>>
    ELSE IF Head(l).call \in Mutations
         THEN <<Head(l)>> \o MutationsOf(Tail(l))
         ELSE MutationsOf(Tail(l))

\* How many entries of a log are the call `call` with argument `arg`.
RECURSIVE Count(_, _, _)
Count(l, call, arg) ==
    IF l = <<>> THEN 0
    ELSE (IF Head(l).call = call /\ Head(l).arg = arg THEN 1 ELSE 0)
         + Count(Tail(l), call, arg)

\* A Go map with key k set to v.
MapSet(m, k, v) == [x \in DOMAIN m \cup {k} |-> IF x = k THEN v ELSE m[x]]

EmptyMap == [x \in {} |-> 0]

-----------------------------------------------------------------------------
(* The kernel's answers.                                                   *)

\* RTM_NEWADDR with NLM_F_CREATE|NLM_F_EXCL: the result code for adding a.
AddrAddCode(ifc, a) == IF a \in kAddrs[ifc] THEN "EEXIST" ELSE "ok"

\* RTM_NEWROUTE with NLM_F_CREATE|NLM_F_EXCL: a destination with host bits
\* set is refused, so is a route that is there.  A table holds one route per
\* destination and metric, whatever the interface: the route is there when
\* any interface has it.
RouteAddCode(ifc, rt) ==
    IF HostBits(rt) THEN "EINVAL"
    ELSE IF \E i \in Ifaces : rt \in kRoutes[i] THEN "EEXIST" ELSE "ok"

\* RTM_DELROUTE.
RouteDelCode(ifc, rt) == IF rt \in kRoutes[ifc] THEN "ok" ELSE "ESRCH"

\* The result codes a call can end with: the kernel's, or the environment's.
Outcomes(code) == {code, Fault}

-----------------------------------------------------------------------------
(* Returning.                                                              *)

\* The invoked function returns e to the caller.
Return(p, e) ==
    /\ pc' = Set(pc, p, "done")
    /\ err' = Set(err, p, e)

\* syncAddress returns e: to Up, which goes on to syncRoutes on nil
\* (wg.go:148-153), or to the caller.
ReturnFromSyncAddress(p, e) ==
    IF e = Nil /\ entry[p] = "Up"
    THEN pc' = Set(pc, p, "route_list") /\ UNCHANGED err
    ELSE Return(p, e)

-----------------------------------------------------------------------------
(* syncAddress (wg.go:163-207).                                            *)

\* wg.go:164-173: list the interface's AF_INET addresses into the map.
AddrList(p) ==
    /\ pc[p] = "addr_list"
    /\ \E res \in Outcomes("ok") :
        /\ log' = Logged(p, "AddrList", "", res)
        /\ faulted' = Set(faulted, p, faulted[p] \/ res = Fault)
        /\ IF res = "ok"
           THEN /\ presentAddresses' = Set(presentAddresses, p,
                      [k \in {IPNetString(a) :
                                a \in {x \in kAddrs[iface[p]] : x.fam = 4}} |-> 1])
                /\ addrIdx' = Set(addrIdx, p, 1)
                /\ pc' = Set(pc, p, "addr_loop")
                /\ UNCHANGED err
           ELSE /\ ReturnFromSyncAddress(p, Error("AddrList", res))
                /\ UNCHANGED <<presentAddresses, addrIdx>>
    /\ UNCHANGED <<kernel, inputs, run, presentRoutes, todo, peerIdx, ipIdx, pure>>

\* The loop over cfg.Address without the return of wg.go:187: a failed AddrAdd
\* is passed over and the loop goes on with the next address.
AddrLoop_ContinuingAfterError(p) ==
    /\ pc[p] = "addr_loop"
    /\ addrIdx[p] <= Len(cfg[p].Address)
    /\ LET addr == cfg[p].Address[addrIdx[p]]
           k == IPNetString(addr)
           present == k \in DOMAIN presentAddresses[p]
       IN  /\ presentAddresses' = Set(presentAddresses, p,
                                      MapSet(presentAddresses[p], k, 2))
           /\ addrIdx' = Set(addrIdx, p, addrIdx[p] + 1)
           /\ IF present
              THEN UNCHANGED <<kernel, pc, err, faulted, log>>
              ELSE \E res \in Outcomes(AddrAddCode(iface[p], addr)) :
                   /\ log' = Logged(p, "AddrAdd", k, res)
                   /\ faulted' = Set(faulted, p, faulted[p] \/ res = Fault)
                   /\ kAddrs' = IF res = "ok"
                                THEN Set(kAddrs, iface[p], kAddrs[iface[p]] \cup {addr})
                                ELSE kAddrs
                   /\ UNCHANGED <<pc, err, kLink, kRoutes>>
    /\ UNCHANGED <<inputs, run, presentRoutes, todo, peerIdx, ipIdx, pure>>

\* wg.go:175-190: one iteration of the loop over cfg.Address.
AddrLoop(p) ==
    /\ pc[p] = "addr_loop"
    /\ addrIdx[p] <= Len(cfg[p].Address)
    /\ LET addr == cfg[p].Address[addrIdx[p]]
           k == IPNetString(addr)
           present == k \in DOMAIN presentAddresses[p]
       IN  /\ presentAddresses' = Set(presentAddresses, p,
                                      MapSet(presentAddresses[p], k, 2))
           /\ IF present
              THEN /\ addrIdx' = Set(addrIdx, p, addrIdx[p] + 1)
                   /\ UNCHANGED <<kernel, pc, err, faulted, log>>
              ELSE \E res \in Outcomes(AddrAddCode(iface[p], addr)) :
                   /\ log' = Logged(p, "AddrAdd", k, res)
                   /\ faulted' = Set(faulted, p, faulted[p] \/ res = Fault)
                   /\ IF res = "ok"
                      THEN /\ kAddrs' = Set(kAddrs, iface[p],
                                            kAddrs[iface[p]] \cup {addr})
                           /\ addrIdx' = Set(addrIdx, p, addrIdx[p] + 1)
                           /\ UNCHANGED <<pc, err>>
                      ELSE /\ ReturnFromSyncAddress(p, Error("AddrAdd", res))
                           /\ UNCHANGED <<kAddrs, addrIdx>>
                   /\ UNCHANGED <<kLink, kRoutes>>
    /\ UNCHANGED <<inputs, run, presentRoutes, todo, peerIdx, ipIdx, pure>>

\* wg.go:190-192: the loop over cfg.Address ends, the range over the map begins.
AddrLoopEnd(p) ==
    /\ pc[p] = "addr_loop"
    /\ addrIdx[p] > Len(cfg[p].Address)
    /\ pc' = Set(pc, p, "addr_clean")
    /\ todo' = Set(todo, p, DOMAIN presentAddresses[p])
    /\ UNCHANGED <<kernel, inputs, run, err, faulted, log, presentAddresses,
                   presentRoutes, addrIdx, peerIdx, ipIdx, pure>>

\* wg.go:192-205: one iteration of the range over presentAddresses, in the
\* order the map gives (any).  The call made for a stale address is AddrAdd.
AddrClean(p) ==
    /\ pc[p] = "addr_clean"
    /\ \E k \in todo[p] :
        /\ todo' = Set(todo, p, todo[p] \ {k})
        /\ IF presentAddresses[p][k] < 2
           THEN IF ~ParsesAsCIDR(k)
                THEN /\ ReturnFromSyncAddress(p, Error("ParseAddr", "invalid CIDR address"))
                     /\ UNCHANGED <<kernel, faulted, log>>
                ELSE LET nlAddr == ParseAddr(k)
                     IN  \E res \in Outcomes(AddrAddCode(iface[p], nlAddr)) :
                         /\ log' = Logged(p, "AddrAdd", k, res)
                         /\ faulted' = Set(faulted, p, faulted[p] \/ res = Fault)
                         /\ IF res = "ok"
                            THEN /\ kAddrs' = Set(kAddrs, iface[p],
                                                  kAddrs[iface[p]] \cup {nlAddr})
                                 /\ UNCHANGED <<pc, err>>
                            ELSE /\ ReturnFromSyncAddress(p, Error("AddrAdd", res))
                                 /\ UNCHANGED kAddrs
                         /\ UNCHANGED <<kLink, kRoutes>>
           ELSE UNCHANGED <<kernel, pc, err, faulted, log>>
    /\ UNCHANGED <<inputs, run, presentAddresses, presentRoutes, addrIdx,
                   peerIdx, ipIdx, pure>>

\* wg.go:206: the range is over, return nil.
AddrCleanEnd(p) ==
    /\ pc[p] = "addr_clean"
    /\ todo[p] = {}
    /\ ReturnFromSyncAddress(p, Nil)
    /\ UNCHANGED <<kernel, inputs, run, faulted, log, loops, pure>>

SyncAddress(p) ==
    \/ AddrList(p)
    \/ AddrLoop(p)
    \/ AddrLoopEnd(p)
    \/ AddrClean(p)
    \/ AddrCleanEnd(p)

-----------------------------------------------------------------------------
(* syncRoutes (wg.go:209-260).                                             *)

\* syncRoutes returns e: Up returns e as well (wg.go:153-159).
ReturnFromSyncRoutes(p, e) == Return(p, e)

\* netlink reports the destination of a default route as absent: Route.Dst
\* is nil for a route of prefix length 0.
DstIsNil(r) == r.bits = 0

\* r.Dst.String() (wg.go:218) on a nil *net.IPNet: a nil dereference in the Go
\* of the build (1.12), "<nil>" in a Go whose String checks the receiver.
NilDstStrings == {"panic", NilString}

\* wg.go:210-219: list the interface's routes into the map.
RouteList(p) ==
    /\ pc[p] = "route_list"
    /\ \E res \in Outcomes("ok") :
        /\ log' = Logged(p, "RouteList", "", res)
        /\ faulted' = Set(faulted, p, faulted[p] \/ res = Fault)
        /\ IF res = "ok"
           THEN LET routes == kRoutes[iface[p]]
                    named == {r \in routes : ~DstIsNil(r)}
                IN  \E nilStr \in NilDstStrings :
                    IF named # routes /\ nilStr = "panic"
                    THEN /\ pc' = Set(pc, p, "panic")
                         /\ UNCHANGED <<err, presentRoutes, peerIdx, ipIdx>>
                    ELSE /\ presentRoutes' = Set(presentRoutes, p,
                               [k \in {IPNetString(r) : r \in named} \cup
                                      (IF named # routes THEN {nilStr} ELSE {})
                                  |-> 1])
                         /\ peerIdx' = Set(peerIdx, p, 1)
                         /\ ipIdx' = Set(ipIdx, p, 1)
                         /\ pc' = Set(pc, p, "route_loop")
                         /\ UNCHANGED err
           ELSE /\ ReturnFromSyncRoutes(p, Error("RouteList", res))
                /\ UNCHANGED <<presentRoutes, peerIdx, ipIdx>>
    /\ UNCHANGED <<kernel, inputs, run, presentAddresses, todo, addrIdx, pure>>

\* wg.go:222-237: one iteration of the loop over a peer's AllowedIPs.
RouteLoop(p) ==
    /\ pc[p] = "route_loop"
    /\ peerIdx[p] <= Len(cfg[p].Peers)
    /\ ipIdx[p] <= Len(cfg[p].Peers[peerIdx[p]].AllowedIPs)
    /\ LET rt == cfg[p].Peers[peerIdx[p]].AllowedIPs[ipIdx[p]]
           k == IPNetString(rt)
           present == k \in DOMAIN presentRoutes[p]
       IN  /\ presentRoutes' = Set(presentRoutes, p, MapSet(presentRoutes[p], k, 2))
           /\ IF present
              THEN /\ ipIdx' = Set(ipIdx, p, ipIdx[p] + 1)
                   /\ UNCHANGED <<kernel, pc, err, faulted, log>>
              ELSE \E res \in Outcomes(RouteAddCode(iface[p], rt)) :
                   /\ log' = Logged(p, "RouteAdd", k, res)
                   /\ faulted' = Set(faulted, p, faulted[p] \/ res = Fault)
                   /\ IF res = "ok"
                      THEN /\ kRoutes' = Set(kRoutes, iface[p],
                                             kRoutes[iface[p]] \cup {rt})
                           /\ ipIdx' = Set(ipIdx, p, ipIdx[p] + 1)
                           /\ UNCHANGED <<pc, err>>
                      ELSE /\ ReturnFromSyncRoutes(p, Error("RouteAdd", res))
                           /\ UNCHANGED <<kRoutes, ipIdx>>
                   /\ UNCHANGED <<kLink, kAddrs>>
    /\ UNCHANGED <<inputs, run, presentAddresses, todo, addrIdx, peerIdx, pure>>

\* wg.go:221-222: a peer's AllowedIPs are done, on to the next peer.
RoutePeerEnd(p) ==
    /\ pc[p] = "route_loop"
    /\ peerIdx[p] <= Len(cfg[p].Peers)
    /\ ipIdx[p] > Len(cfg[p].Peers[peerIdx[p]].AllowedIPs)
    /\ peerIdx' = Set(peerIdx, p, peerIdx[p] + 1)
    /\ ipIdx' = Set(ipIdx, p, 1)
    /\ UNCHANGED <<kernel, inputs, pc, run, err, faulted, log, presentAddresses,
                   presentRoutes, todo, addrIdx, pure>>

\* wg.go:238-241: the loop over cfg.Peers ends, the range over the map begins.
RouteLoopEnd(p) ==
    /\ pc[p] = "route_loop"
    /\ peerIdx[p] > Len(cfg[p].Peers)
    /\ pc' = Set(pc, p, "route_clean")
    /\ todo' = Set(todo, p, DOMAIN presentRoutes[p])
    /\ UNCHANGED <<kernel, inputs, run, err, faulted, log, presentAddresses,
                   presentRoutes, addrIdx, peerIdx, ipIdx, pure>>

\* wg.go:241-258: one iteration of the range over presentRoutes, in the order
\* the map gives (any).  The key is parsed before its mark is looked at.
RouteClean(p) ==
    /\ pc[p] = "route_clean"
    /\ \E k \in todo[p] :
        /\ todo' = Set(todo, p, todo[p] \ {k})
        /\ IF ~ParsesAsCIDR(k)
           THEN /\ ReturnFromSyncRoutes(p, Error("ParseCIDR", "invalid CIDR address"))
                /\ UNCHANGED <<kernel, faulted, log>>
           ELSE IF presentRoutes[p][k] < 2
                THEN LET rt == ParseCIDR(k)
                     IN  \E res \in Outcomes(RouteDelCode(iface[p], rt)) :
                         /\ log' = Logged(p, "RouteDel", IPNetString(rt), res)
                         /\ faulted' = Set(faulted, p, faulted[p] \/ res = Fault)
                         /\ IF res = "ok"
                            THEN /\ kRoutes' = Set(kRoutes, iface[p],
                                                   kRoutes[iface[p]] \ {rt})
                                 /\ UNCHANGED <<pc, err>>
                            ELSE /\ ReturnFromSyncRoutes(p, Error("RouteDel", res))
                                 /\ UNCHANGED kRoutes
                         /\ UNCHANGED <<kLink, kAddrs>>
                ELSE UNCHANGED <<kernel, pc, err, faulted, log>>
    /\ UNCHANGED <<inputs, run, presentAddresses, presentRoutes, addrIdx,
                   peerIdx, ipIdx, pure>>

\* wg.go:259: the range is over, return nil.
RouteCleanEnd(p) ==
    /\ pc[p] = "route_clean"
    /\ todo[p] = {}
    /\ ReturnFromSyncRoutes(p, Nil)
    /\ UNCHANGED <<kernel, inputs, run, faulted, log, loops, pure>>

SyncRoutes(p) ==
    \/ RouteList(p)
    \/ RouteLoop(p)
    \/ RoutePeerEnd(p)
    \/ RouteLoopEnd(p)
    \/ RouteClean(p)
    \/ RouteCleanEnd(p)

-----------------------------------------------------------------------------
(* Config.Up (wg.go:102-161).                                              *)

\* netlink.LinkByName: the link, or LinkNotFoundError when there is none.
LinkByNameCode(ifc) == IF kLink[ifc] = "absent" THEN "LinkNotFoundError" ELSE "ok"

\* netlink.LinkAdd: RTM_NEWLINK with NLM_F_CREATE|NLM_F_EXCL.
LinkAddCode(ifc) == IF kLink[ifc] = "absent" THEN "ok" ELSE "EEXIST"

\* One call of Up that changes nothing in the kernel and either fails, and Up
\* returns the error, or succeeds, and Up goes on at `next`.
UpCall(p, call, next) ==
    \E res \in Outcomes("ok") :
        /\ log' = Logged(p, call, iface[p], res)
        /\ faulted' = Set(faulted, p, faulted[p] \/ res = Fault)
        /\ IF res = "ok"
           THEN pc' = Set(pc, p, next) /\ UNCHANGED err
           ELSE Return(p, Error(call, res))

\* UpLinkByName without the type switch of wg.go:106: every error of the
\* lookup, not only LinkNotFoundError, leads to the creation of the interface.
UpLinkByName_AnyErrorCreates(p) ==
    /\ pc[p] = "up_lookup"
    /\ \E res \in Outcomes(LinkByNameCode(iface[p])) :
        /\ log' = Logged(p, "LinkByName", iface[p], res)
        /\ faulted' = Set(faulted, p, faulted[p] \/ res = Fault)
        /\ pc' = Set(pc, p, IF res = "ok" THEN "up_setup" ELSE "up_create")
        /\ UNCHANGED err
    /\ UNCHANGED <<kernel, inputs, run, loops, pure>>

\* wg.go:104-110: look the interface up; not found leads to its creation, any
\* other error is returned.
UpLinkByName(p) ==
    /\ pc[p] = "up_lookup"
    /\ \E res \in Outcomes(LinkByNameCode(iface[p])) :
        /\ log' = Logged(p, "LinkByName", iface[p], res)
        /\ faulted' = Set(faulted, p, faulted[p] \/ res = Fault)
        /\ IF res = "ok"
           THEN pc' = Set(pc, p, "up_setup") /\ UNCHANGED err
           ELSE IF res = "LinkNotFoundError"
                THEN pc' = Set(pc, p, "up_create") /\ UNCHANGED err
                ELSE Return(p, Error("LinkByName", res))
    /\ UNCHANGED <<kernel, inputs, run, loops, pure>>

\* wg.go:111-120: create the wireguard link.
UpLinkAdd(p) ==
    /\ pc[p] = "up_create"
    /\ \E res \in Outcomes(LinkAddCode(iface[p])) :
        /\ log' = Logged(p, "LinkAdd", iface[p], res)
        /\ faulted' = Set(faulted, p, faulted[p] \/ res = Fault)
        /\ IF res = "ok"
           THEN /\ kLink' = Set(kLink, iface[p], "down")
                /\ pc' = Set(pc, p, "up_ipadd")
                /\ UNCHANGED err
           ELSE /\ Return(p, Error("LinkAdd", res))
                /\ UNCHANGED kLink
    /\ UNCHANGED <<kAddrs, kRoutes, inputs, run, loops, pure>>

\* wg.go:121-122: `ip link add dev IFACE type wireguard`; its error is dropped.
UpIpLinkAdd(p) ==
    /\ pc[p] = "up_ipadd"
    /\ log' = Logged(p, "ip link add", iface[p],
                     IF kLink[iface[p]] = "absent" THEN "ok" ELSE "exit status 2")
    /\ kLink' = Set(kLink, iface[p],
                    IF kLink[iface[p]] = "absent" THEN "down" ELSE kLink[iface[p]])
    /\ pc' = Set(pc, p, "up_relookup")
    /\ UNCHANGED <<kAddrs, kRoutes, inputs, run, err, faulted, loops, pure>>

\* wg.go:124-128: look the created interface up; any error is returned.
UpLinkByNameAgain(p) ==
    /\ pc[p] = "up_relookup"
    /\ \E res \in Outcomes(LinkByNameCode(iface[p])) :
        /\ log' = Logged(p, "LinkByName", iface[p], res)
        /\ faulted' = Set(faulted, p, faulted[p] \/ res = Fault)
        /\ IF res = "ok"
           THEN pc' = Set(pc, p, "up_setup") /\ UNCHANGED err
           ELSE Return(p, Error("LinkByName", res))
    /\ UNCHANGED <<kernel, inputs, run, loops, pure>>

\* wg.go:130-135: set the link administratively up.
UpLinkSetUp(p) ==
    /\ pc[p] = "up_setup"
    /\ \E res \in Outcomes("ok") :
        /\ log' = Logged(p, "LinkSetUp", iface[p], res)
        /\ faulted' = Set(faulted, p, faulted[p] \/ res = Fault)
        /\ IF res = "ok"
           THEN /\ kLink' = Set(kLink, iface[p], "up")
                /\ pc' = Set(pc, p, "up_wgnew")
                /\ UNCHANGED err
           ELSE /\ Return(p, Error("LinkSetUp", res))
                /\ UNCHANGED kLink
    /\ UNCHANGED <<kAddrs, kRoutes, inputs, run, loops, pure>>

\* wg.go:137-141: open the wireguard control client.
UpWireguardctrlNew(p) ==
    /\ pc[p] = "up_wgnew"
    /\ UpCall(p, "wireguardctrl.New", "up_configure")
    /\ UNCHANGED <<kernel, inputs, run, loops, pure>>

\* UpConfigureDevice without the return of wg.go:145: the error of
\* ConfigureDevice is logged and Up goes on to syncAddress.
UpConfigureDevice_IgnoringError(p) ==
    /\ pc[p] = "up_configure"
    /\ \E res \in Outcomes("ok") :
        /\ log' = Logged(p, "ConfigureDevice", iface[p], res)
        /\ faulted' = Set(faulted, p, faulted[p] \/ res = Fault)
        /\ pc' = Set(pc, p, "addr_list")
        /\ UNCHANGED err
    /\ UNCHANGED <<kernel, inputs, run, loops, pure>>

\* wg.go:143-146: push the device configuration; then syncAddress (wg.go:148).
UpConfigureDevice(p) ==
    /\ pc[p] = "up_configure"
    /\ UpCall(p, "ConfigureDevice", "addr_list")
    /\ UNCHANGED <<kernel, inputs, run, loops, pure>>

Up(p) ==
    \/ UpLinkByName(p)
    \/ UpLinkAdd(p)
    \/ UpIpLinkAdd(p)
    \/ UpLinkByNameAgain(p)
    \/ UpLinkSetUp(p)
    \/ UpWireguardctrlNew(p)
    \/ UpConfigureDevice(p)
    \/ SyncAddress(p)
    \/ SyncRoutes(p)

-----------------------------------------------------------------------------
(* The key codec (wg.go:82-94): base64.StdEncoding over a wgtypes.Key.     *)

\* The byte values the keys are made of: every pair of bits and every
\* boundary between the sextets of a group is met.
Bytes == {0, 1, 3, 4, 15, 16, 63, 64, 128, 255}

Keys == [1..KeyLen -> Bytes]

ZeroKey == [i \in 1..KeyLen |-> 0]

\* The alphabet of base64.StdEncoding; the padding character.
Alphabet ==
    <<"A", "B", "C", "D", "E", "F", "G", "H", "I", "J", "K", "L", "M",
      "N", "O", "P", "Q", "R", "S", "T", "U", "V", "W", "X", "Y", "Z",
      "a", "b", "c", "d", "e", "f", "g", "h", "i", "j", "k", "l", "m",
      "n", "o", "p", "q", "r", "s", "t", "u", "v", "w", "x", "y", "z",
      "0", "1", "2", "3", "4", "5", "6", "7", "8", "9", "+", "/">>

Pad == "="

IsDigit(c) == \E v \in 1..64 : Alphabet[v] = c

\* The six bits a character of the alphabet stands for.
Sextet(c) == (CHOOSE v \in 1..64 : Alphabet[v] = c) - 1

\* base64.StdEncoding.EncodeToString: three bytes to four characters, the last
\* group padded.  A text is the sequence of its characters.
RECURSIVE Encode(_)
Encode(b) ==
    IF Len(b) = 0 THEN <<>>
    ELSE IF Len(b) = 1
         THEN <<Alphabet[(b[1] \div 4) + 1], Alphabet[((b[1] % 4) * 16) + 1], Pad, Pad>>
    ELSE IF Len(b) = 2
         THEN <<Alphabet[(b[1] \div 4) + 1],
                Alphabet[((b[1] % 4) * 16) + (b[2] \div 16) + 1],
                Alphabet[((b[2] % 16) * 4) + 1], Pad>>
    ELSE <<Alphabet[(b[1] \div 4) + 1],
           Alphabet[((b[1] % 4) * 16) + (b[2] \div 16) + 1],
           Alphabet[((b[2] % 16) * 4) + (b[3] \div 64) + 1],
           Alphabet[(b[3] % 64) + 1]>> \o Encode(SubSeq(b, 4, Len(b)))

\* The bytes of one group of four characters, the last group's padding allowed
\* when `last`; <<-1>> for a group that is no base64.
DecodeGroup(g, last) ==
    IF \A i \in 1..4 : IsDigit(g[i])
    THEN <<Sextet(g[1]) * 4 + (Sextet(g[2]) \div 16),
           (Sextet(g[2]) % 16) * 16 + (Sextet(g[3]) \div 4),
           (Sextet(g[3]) % 4) * 64 + Sextet(g[4])>>
    ELSE IF last /\ IsDigit(g[1]) /\ IsDigit(g[2]) /\ IsDigit(g[3]) /\ g[4] = Pad
    THEN <<Sextet(g[1]) * 4 + (Sextet(g[2]) \div 16),
           (Sextet(g[2]) % 16) * 16 + (Sextet(g[3]) \div 4)>>
    ELSE IF last /\ IsDigit(g[1]) /\ IsDigit(g[2]) /\ g[3] = Pad /\ g[4] = Pad
    THEN <<Sextet(g[1]) * 4 + (Sextet(g[2]) \div 16)>>
    ELSE <<-1>>

\* base64.StdEncoding.DecodeString: [bytes, err].  The text must be whole
\* groups of four characters of the alphabet, padding only at its end.
RECURSIVE Decode(_)
Decode(t) ==
    IF Len(t) = 0 THEN [bytes |-> <<>>, err |-> Nil]
    ELSE IF Len(t) < 4 THEN [bytes |-> <<>>, err |-> "illegal base64 data"]
    ELSE LET g == DecodeGroup(SubSeq(t, 1, 4), Len(t) = 4)
             rest == Decode(SubSeq(t, 5, Len(t)))
         IN  IF g = <<-1>> \/ rest.err # Nil
             THEN [bytes |-> <<>>, err |-> "illegal base64 data"]
             ELSE [bytes |-> g \o rest.bytes, err |-> Nil]

\* wg.go:82-84.
serializeKey(key) == Encode(key)

\* copy with an end one byte short: the last byte of the key is left zero.
CopyIntoKey_OneShort(slice) ==
    [i \in 1..KeyLen |-> IF i <= Len(slice) /\ i < KeyLen THEN slice[i] ELSE 0]

\* copy(pkey[:], pkeySlice[:]) into a zero key (wg.go:87, 92): the first KeyLen
\* bytes of the slice, the rest of the key left zero.
CopyIntoKey(slice) ==
    [i \in 1..KeyLen |-> IF i <= Len(slice) THEN slice[i] ELSE 0]

\* wg.go:86-94: [key, err].
ParseKey(text) ==
    LET d == Decode(text)
    IN  IF d.err # Nil
        THEN [called |-> TRUE, key |-> ZeroKey, err |-> d.err]
        ELSE [called |-> TRUE, key |-> CopyIntoKey(d.bytes), err |-> Nil]

NotCalled == [called |-> FALSE]

\* The caller hands keyText to ParseKey.
CallParseKey ==
    /\ ~keyResult.called
    /\ keyResult' = ParseKey(keyText)
    /\ UNCHANGED <<kernel, inputs, pc, run, err, faulted, log, loops, keyText, rendered>>

-----------------------------------------------------------------------------
(* MarshalText and the template (wg.go:49-80).                             *)

\* The characters of a text as one string.
RECURSIVE Join(_)
Join(t) == IF t = <<>> THEN "" ELSE Head(t) \o Join(Tail(t))

\* The elements of a list, each between sep: `{{if $i}}, {{end}}{{$el}}`.
RECURSIVE JoinWith(_, _)
JoinWith(t, sep) ==
    IF t = <<>> THEN ""
    ELSE IF Len(t) = 1 THEN t[1]
    ELSE t[1] \o sep \o JoinWith(Tail(t), sep)

NL == "\n"

\* `{{- if X }}{{ "\n" }}Key = {{ V }}{{ end }}`: a line break and the line
\* when X is set, nothing otherwise.
Optional(set, line) == IF set THEN <<NL, line>> ELSE <<>>

\* wg.go:58-60 and 61-63: the body of a range is a line break, the line and a
\* line break.  (The template writes `range := .Address`; it is read here as
\* `range .Address`.)
RECURSIVE RangeLines(_, _)
RangeLines(key, vals) ==
    IF vals = <<>> THEN <<>>
    ELSE <<NL, key \o " = " \o Head(vals), NL>> \o RangeLines(key, Tail(vals))

\* wg.go:74-79: the sections of the peers.
RECURSIVE PeerSections(_)
PeerSections(peers) ==
    IF peers = <<>> THEN <<>>
    ELSE LET peer == Head(peers)
         IN  <<NL, "[Peer]",
               NL, "PublicKey = " \o Join(serializeKey(peer.PublicKey)),
               NL, "AllowedIps = " \o
                   JoinWith([i \in DOMAIN peer.AllowedIPs |->
                                IPNetString(peer.AllowedIPs[i])], ", ")>>
             \o Optional(peer.Endpoint # "", "Endpoint = " \o peer.Endpoint)
             \o PeerSections(Tail(peers))

\* What executing wgtypeTemplateSpec on c writes (wg.go:57-80): the pieces of
\* the text in order, NL for a line break.
Execute(c) ==
    <<"[Interface]">>
    \o RangeLines("Address", [i \in DOMAIN c.Address |-> IPNetString(c.Address[i])])
    \o RangeLines("DNS", c.DNS)
    \o <<NL, "PrivateKey = " \o Join(serializeKey(c.PrivateKey))>>
    \o Optional(c.ListenPort # <<>>,
                "ListenPort = " \o (IF c.ListenPort = <<>> THEN ""
                                    ELSE ToString(c.ListenPort[1])))
    \o Optional(c.MTU # 0, "MTU = " \o ToString(c.MTU))
    \o Optional(c.Table # 0, "Table = " \o ToString(c.Table))
    \o Optional(c.PreUp # "", "PreUp = " \o c.PreUp)
    \o Optional(c.PostUp # "", "Table = " \o ToString(c.Table))
    \o Optional(c.PreDown # "", "PreDown = " \o c.PreDown)
    \o Optional(c.PostDown # "", "PostDown = " \o c.PostDown)
    \o Optional(c.SaveConfig, "SaveConfig = true")
    \o PeerSections(c.Peers)
    \o <<NL>>

\* wg.go:49-55: [text, err].
MarshalText(c) == [called |-> TRUE, text |-> Execute(c), err |-> Nil]

\* The lines of a text: what stands between its line breaks.
RECURSIVE LinesFrom(_, _)
LinesFrom(t, cur) ==
    IF t = <<>> THEN <<cur>>
    ELSE IF Head(t) = NL THEN <<cur>> \o LinesFrom(Tail(t), "")
    ELSE LinesFrom(Tail(t), cur \o Head(t))

Lines(t) == LinesFrom(t, "")

HasLine(t, line) == \E i \in DOMAIN Lines(t) : Lines(t)[i] = line

\* The caller marshals cfg[1].
CallMarshalText ==
    /\ ~rendered.called
    /\ rendered' = MarshalText(cfg[1])
    /\ UNCHANGED <<kernel, inputs, pc, run, err, faulted, log, loops, keyText, keyResult>>

-----------------------------------------------------------------------------
(* Configurations (wg.go:16-39) and the callers.                           *)

\* A wgtypes.PeerConfig, as far as the package reads it.
PeerConfig(allowed) ==
    [PublicKey |-> ZeroKey, AllowedIPs |-> allowed, Endpoint |-> ""]

\* A Config with every optional field unset.  ListenPort is a *int: <<>> is
\* nil, <<n>> points to n; the template's `if` takes a pointer that is not nil
\* for set, whatever it points to.  Endpoint is a *net.UDPAddr: "" is nil.
ZeroConfig ==
    [PrivateKey |-> ZeroKey, ListenPort |-> <<>>, Address |-> <<>>, DNS |-> <<>>,
     MTU |-> 0, Table |-> 0, PreUp |-> "", PostUp |-> "", PreDown |-> "",
     PostDown |-> "", SaveConfig |-> FALSE, Peers |-> <<>>]

AddressLists == SeqsUpTo(Addrs, MaxAddrs)

\* The ways to cut a list of n entries into k consecutive parts: the ends of
\* the first k-1 parts.
Cuts(n, k) ==
    {c \in [1..(k - 1) -> 0..n] : \A i \in 1..(k - 2) : c[i] <= c[i + 1]}

\* The k = Len(c) + 1 peers whose AllowedIPs are the parts of s cut at c.
Split(s, c) ==
    [i \in 1..(Len(c) + 1) |->
        PeerConfig(SubSeq(s, (IF i = 1 THEN 0 ELSE c[i - 1]) + 1,
                             IF i = Len(c) + 1 THEN Len(s) ELSE c[i]))]

\* The lists of at most MaxPeers peers with at most MaxAllowedIPs allowed IPs
\* in all.
PeerLists ==
    {<<>>} \cup
    UNION {{Split(s, c) : c \in Cuts(Len(s), k)} :
             <<s, k>> \in SeqsUpTo(Prefixes, MaxAllowedIPs) \X (1..MaxPeers)}

\* Where a function of the package starts.
StartPc(fn) ==
    CASE fn = "Up" -> "up_lookup"
      [] fn = "syncAddress" -> "addr_list"
      [] fn = "syncRoutes" -> "route_list"
      [] OTHER -> "idle"

\* The state of the passes when pass 1 has been handed c for interface wg0 and
\* enters fn; pass 2 is not running.
InitPasses(fn, c) ==
    /\ cfg = [p \in Procs |-> IF p = 1 THEN c ELSE ZeroConfig]
    /\ iface = [p \in Procs |-> IF p = 1 THEN "wg0" ELSE "wg1"]
    /\ entry = [p \in Procs |-> fn]
    /\ pc = [p \in Procs |-> IF p = 1 THEN StartPc(fn) ELSE "idle"]
    /\ run = [p \in Procs |-> 1]
    /\ err = [p \in Procs |-> Nil]
    /\ faulted = [p \in Procs |-> FALSE]
    /\ log = [p \in Procs |-> <<>>]
    /\ presentAddresses = [p \in Procs |-> EmptyMap]
    /\ presentRoutes = [p \in Procs |-> EmptyMap]
    /\ todo = [p \in Procs |-> {}]
    /\ addrIdx = [p \in Procs |-> 1]
    /\ peerIdx = [p \in Procs |-> 1]
    /\ ipIdx = [p \in Procs |-> 1]

\* What the interface carries.
Snapshot(ifc) == [link |-> kLink[ifc], addrs |-> kAddrs[ifc], routes |-> kRoutes[ifc]]

InitSnapshot == atStart = [p \in Procs |-> Snapshot(iface[p])]

InitPure ==
    /\ keyText = <<>>
    /\ keyResult = NotCalled
    /\ rendered = NotCalled

\* The caller invokes the same function again, with the same arguments.
Rerun(p) ==
    /\ pc[p] = "done"
    /\ run[p] < MaxRuns
    /\ run' = Set(run, p, run[p] + 1)
    /\ pc' = Set(pc, p, StartPc(entry[p]))
    /\ err' = Set(err, p, Nil)
    /\ log' = Set(log, p, <<>>)
    /\ atStart' = Set(atStart, p, Snapshot(iface[p]))
    /\ UNCHANGED <<kernel, cfg, iface, entry, faulted, loops, pure>>

-----------------------------------------------------------------------------
(* SpecAddr: syncAddress on an interface that is up, for every list of     *)
(* desired IPv4 addresses and every set of IPv4 addresses on the           *)
(* interface, invoked MaxRuns times in succession.  SpecAddr6: the same    *)
(* with the IPv6 address among them, and lists one entry longer: room for  *)
(* an entry before two entries that are the same address.                  *)

InitAddrOver(U, n) ==
    /\ \E as \in SeqsUpTo(U, n) :
          InitPasses("syncAddress", [ZeroConfig EXCEPT !.Address = as])
    /\ kLink = [i \in Ifaces |-> IF i = "wg0" THEN "up" ELSE "absent"]
    /\ \E O \in SUBSET U : kAddrs = [i \in Ifaces |-> IF i = "wg0" THEN O ELSE {}]
    /\ kRoutes = [i \in Ifaces |-> {}]
    /\ InitSnapshot
    /\ InitPure

InitAddr == InitAddrOver(Addrs, MaxAddrs)

InitAddr6 == InitAddrOver(Addrs \cup Addrs6, MaxAddrs + 1)

NextAddr == \E p \in Procs : SyncAddress(p) \/ Rerun(p)

SpecAddr == InitAddr /\ [][NextAddr]_vars

SpecAddr6 == InitAddr6 /\ [][NextAddr]_vars

-----------------------------------------------------------------------------
(* SpecRoutes: the same for syncRoutes, for every list of peers and every  *)
(* set of routes through the interface.                                    *)

InitRoutes ==
    /\ \E ps \in PeerLists : InitPasses("syncRoutes", [ZeroConfig EXCEPT !.Peers = ps])
    /\ kLink = [i \in Ifaces |-> IF i = "wg0" THEN "up" ELSE "absent"]
    /\ kAddrs = [i \in Ifaces |-> {}]
    /\ \E O \in SUBSET Networks : kRoutes = [i \in Ifaces |-> IF i = "wg0" THEN O ELSE {}]
    /\ InitSnapshot
    /\ InitPure

NextRoutes == \E p \in Procs : SyncRoutes(p) \/ Rerun(p)

SpecRoutes == InitRoutes /\ [][NextRoutes]_vars

-----------------------------------------------------------------------------
(* Spec: one call of Up for interface wg0, from every state of the         *)
(* interface: absent, or present (down or up) with any addresses and any   *)
(* of the routes UpRoutes on it.                                           *)

\* The peer lists Up is given here: no peer, or one peer with one allowed IP.
UpPeerLists == {<<>>} \cup {<<PeerConfig(<<n>>)>> : n \in Prefixes}

\* The routes the interface may carry when Up starts.
UpRoutes == {DefaultRoute, IPNet4(10, 0, 0, 0, 24)}

Init ==
    /\ \E as \in AddressLists, ps \in UpPeerLists :
          InitPasses("Up", [ZeroConfig EXCEPT !.Address = as, !.Peers = ps])
    /\ \E state \in {"absent", "down", "up"} :
          /\ kLink = [i \in Ifaces |-> IF i = "wg0" THEN state ELSE "absent"]
          /\ \E Oa \in SUBSET Addrs, Or \in SUBSET UpRoutes :
                /\ state = "absent" => Oa = {} /\ Or = {}
                /\ kAddrs = [i \in Ifaces |-> IF i = "wg0" THEN Oa ELSE {}]
                /\ kRoutes = [i \in Ifaces |-> IF i = "wg0" THEN Or ELSE {}]
    /\ InitSnapshot
    /\ InitPure

Next == \E p \in Procs : Up(p)

Spec == Init /\ [][Next]_vars

-----------------------------------------------------------------------------
(* SpecKey: ParseKey on every text of at most MaxText characters of        *)
(* KeyChars.                                                               *)

\* Two characters of the alphabet, the padding, and a character outside it.
KeyChars == {"A", "/", Pad, "!"}

NoKernel ==
    /\ kLink = [i \in Ifaces |-> "absent"]
    /\ kAddrs = [i \in Ifaces |-> {}]
    /\ kRoutes = [i \in Ifaces |-> {}]

InitKey ==
    /\ InitPasses("ParseKey", ZeroConfig)
    /\ NoKernel
    /\ InitSnapshot
    /\ keyText \in SeqsUpTo(KeyChars, MaxText)
    /\ keyResult = NotCalled
    /\ rendered = NotCalled

NextKey == CallParseKey

SpecKey == InitKey /\ [][NextKey]_vars

-----------------------------------------------------------------------------
(* SpecRoundTrip: ParseKey on the text serializeKey gives for a key; the   *)
(* key is the PrivateKey of the Config.                                    *)

InitRoundTrip ==
    /\ \E k \in Keys :
          /\ InitPasses("ParseKey", [ZeroConfig EXCEPT !.PrivateKey = k])
          /\ keyText = serializeKey(k)
    /\ NoKernel
    /\ InitSnapshot
    /\ keyResult = NotCalled
    /\ rendered = NotCalled

SpecRoundTrip == InitRoundTrip /\ [][NextKey]_vars

-----------------------------------------------------------------------------
(* SpecRender: MarshalText on configurations with every optional field     *)
(* set or unset.                                                           *)

Hooks == {"", "echo %i"}

RenderPeerLists ==
    {<<>>,
     <<[PublicKey |-> ZeroKey,
        AllowedIPs |-> <<IPNet4(10, 0, 0, 0, 24), IPNet4(10, 1, 0, 0, 24)>>,
        Endpoint |-> "192.0.2.1:51820"]>>}

RenderConfigs ==
    {[PrivateKey |-> ZeroKey, ListenPort |-> lp, Address |-> as, DNS |-> <<>>,
      MTU |-> mtu, Table |-> tb, PreUp |-> h[1], PostUp |-> h[2],
      PreDown |-> h[3], PostDown |-> h[4], SaveConfig |-> sc, Peers |-> ps] :
        lp \in {<<>>, <<0>>, <<51820>>}, as \in AddressLists, mtu \in {0, 1420},
        tb \in {0, 51820}, h \in [1..4 -> Hooks], sc \in BOOLEAN,
        ps \in RenderPeerLists}

InitRender ==
    /\ \E c \in RenderConfigs : InitPasses("MarshalText", c)
    /\ NoKernel
    /\ InitSnapshot
    /\ keyText = <<>>
    /\ keyResult = NotCalled
    /\ rendered = NotCalled

NextRender == CallMarshalText

SpecRender == InitRender /\ [][NextRender]_vars

-----------------------------------------------------------------------------
(* SpecUpOptions: one call of Up for interface wg0 with the options of the *)
(* Config that Up never reads set or unset: the hooks PreUp and PostUp and *)
(* the routing table.                                                      *)

\* Config.Table: 0 is unset (`auto`), any other value a table id.  Being an
\* int, the field has no value for `off`.
Tables == {0, 51820}

\* The Table field of the netlink.Route that syncRoutes builds (wg.go:229-232)
\* is left zero, which netlink sends as the main table: RouteAdd puts the
\* route into the main table, whose routes through the interface kRoutes holds.
MainTable == 254

\* The addresses of the interface and of the Config here.
OptionAddrs == {IPNet4(10, 0, 0, 2, 24), IPNet4(192, 168, 1, 1, 24)}

InitUpOptions ==
    /\ \E as \in SeqsUpTo(OptionAddrs, 1), ps \in UpPeerLists,
          pre \in Hooks, post \in Hooks, tb \in Tables :
          InitPasses("Up", [ZeroConfig EXCEPT !.Address = as, !.Peers = ps,
                                              !.PreUp = pre, !.PostUp = post,
                                              !.Table = tb])
    /\ \E state \in {"absent", "down", "up"} :
          /\ kLink = [i \in Ifaces |-> IF i = "wg0" THEN state ELSE "absent"]
          /\ \E Oa \in SUBSET OptionAddrs, Or \in SUBSET UpRoutes :
                /\ state = "absent" => Oa = {} /\ Or = {}
                /\ kAddrs = [i \in Ifaces |-> IF i = "wg0" THEN Oa ELSE {}]
                /\ kRoutes = [i \in Ifaces |-> IF i = "wg0" THEN Or ELSE {}]
    /\ InitSnapshot
    /\ InitPure

SpecUpOptions == InitUpOptions /\ [][Next]_vars

-----------------------------------------------------------------------------
(* SpecUpLists: one call of Up for interface wg0 with lists of addresses   *)
(* and of peers long enough for an add to fail after another succeeded.    *)

\* The allowed IPs of the peers here.
ListPrefixes == {IPNet4(10, 0, 0, 0, 24), IPNet4(10, 1, 0, 0, 24)}

\* At most MaxPeers peers of one allowed IP each, or one peer with two.
UpListsPeers ==
    SeqsUpTo({PeerConfig(<<n>>) : n \in ListPrefixes}, MaxPeers)
    \cup {<<PeerConfig(<<a, b>>)>> : a \in ListPrefixes, b \in ListPrefixes}

InitUpLists ==
    /\ \E as \in SeqsUpTo(OptionAddrs, MaxAddrs), ps \in UpListsPeers :
          InitPasses("Up", [ZeroConfig EXCEPT !.Address = as, !.Peers = ps])
    /\ \E state \in {"absent", "up"} :
          /\ kLink = [i \in Ifaces |-> IF i = "wg0" THEN state ELSE "absent"]
          /\ \E Oa \in SUBSET OptionAddrs, Or \in SUBSET UpRoutes :
                /\ state = "absent" => Oa = {} /\ Or = {}
                /\ kAddrs = [i \in Ifaces |-> IF i = "wg0" THEN Oa ELSE {}]
                /\ kRoutes = [i \in Ifaces |-> IF i = "wg0" THEN Or ELSE {}]
    /\ InitSnapshot
    /\ InitPure

SpecUpLists == InitUpLists /\ [][Next]_vars

-----------------------------------------------------------------------------
(* Two calls of Up, each with its own Config, on interfaces that carry no  *)
(* address and no route when the calls begin.  SpecTwoIfaces: for two      *)
(* different interfaces, the steps of the two calls interleaved in any     *)
(* order.  SpecRace: for the same interface, interleaved in any order.     *)
(* SpecSerialized: for the same interface, the caller making the second    *)
(* call when the first has returned.                                       *)

\* The Configs of the two calls: at most one address, at most one peer with
\* one allowed IP.
TwoConfigs ==
    {[ZeroConfig EXCEPT !.Address = as, !.Peers = ps] :
        as \in SeqsUpTo(OptionAddrs, 1),
        ps \in {<<>>} \cup {<<PeerConfig(<<n>>)>> : n \in ListPrefixes}}

InitTwo(ifc1, ifc2) ==
    /\ cfg \in [Procs -> TwoConfigs]
    /\ iface = [p \in Procs |-> IF p = 1 THEN ifc1 ELSE ifc2]
    /\ entry = [p \in Procs |-> "Up"]
    /\ pc = [p \in Procs |-> StartPc("Up")]
    /\ run = [p \in Procs |-> 1]
    /\ err = [p \in Procs |-> Nil]
    /\ faulted = [p \in Procs |-> FALSE]
    /\ log = [p \in Procs |-> <<>>]
    /\ presentAddresses = [p \in Procs |-> EmptyMap]
    /\ presentRoutes = [p \in Procs |-> EmptyMap]
    /\ todo = [p \in Procs |-> {}]
    /\ addrIdx = [p \in Procs |-> 1]
    /\ peerIdx = [p \in Procs |-> 1]
    /\ ipIdx = [p \in Procs |-> 1]
    /\ kLink \in [Ifaces -> {"absent", "up"}]
    /\ \A i \in Ifaces \ {ifc1, ifc2} : kLink[i] = "absent"
    /\ kAddrs = [i \in Ifaces |-> {}]
    /\ kRoutes = [i \in Ifaces |-> {}]
    /\ InitSnapshot
    /\ InitPure

SpecTwoIfaces == InitTwo("wg0", "wg1") /\ [][Next]_vars

SpecRace == InitTwo("wg0", "wg0") /\ [][Next]_vars

\* The caller holds the second call back until the first has returned.
NextSerialized ==
    \E p \in Procs :
        /\ p = 2 => pc[1] \in {"done", "panic"}
        /\ Up(p)

SpecSerialized == InitTwo("wg0", "wg0") /\ [][NextSerialized]_vars

-----------------------------------------------------------------------------
(* What the claims speak of.                                               *)

Range(f) == {f[i] : i \in DOMAIN f}

\* The invocation of fn by pass p has returned.
Returned(p, fn) == entry[p] = fn /\ pc[p] = "done"

\* S: the desired addresses of pass p.
DesiredAddrs(p) == Range(cfg[p].Address)

\* The allowed IPs of all peers of pass p, as written.
AllowedIPsOf(p) == UNION {Range(peer.AllowedIPs) : peer \in Range(cfg[p].Peers)}

\* The destination networks they denote.
DesiredRoutes(p) == {Network(n) : n \in AllowedIPsOf(p)}

\* The entries of a log that are the call `call`.
CallsOf(l, call) == {i \in DOMAIN l : l[i].call = call}

\* The phase of Up a call belongs to: 1 ensure-interface, 2 set-up,
\* 3 push-device-config, 4 syncAddress, 5 syncRoutes.
PhaseOf(call) ==
    CASE call \in {"LinkByName", "LinkAdd", "ip link add"} -> 1
      [] call = "LinkSetUp" -> 2
      [] call \in {"wireguardctrl.New", "ConfigureDevice"} -> 3
      [] call \in {"AddrList", "AddrAdd", "AddrDel"} -> 4
      [] call \in {"RouteList", "RouteAdd", "RouteDel"} -> 5

\* Entry i of the log is a call that failed its phase: not the first lookup
\* reporting that the interface does not exist, not the `ip link add` whose
\* error Up drops.
FailedAt(l, i) ==
    /\ l[i].res # "ok"
    /\ l[i].call # "ip link add"
    /\ ~(i = 1 /\ l[i].call = "LinkByName" /\ l[i].res = "LinkNotFoundError")

-----------------------------------------------------------------------------
(* C1.  Address convergence: when syncAddress has returned and the         *)
(* environment failed none of its kernel calls, the interface's addresses  *)
(* are exactly the desired ones.  (The statement of the claim; the code    *)
(* violates it.)                                                           *)
C1_AddressConvergence ==
    \A p \in Procs :
        (Returned(p, "syncAddress") /\ ~faulted[p])
            => kAddrs[iface[p]] = DesiredAddrs(p)

(* C2.  Route convergence: when syncRoutes has returned and the            *)
(* environment failed none of its kernel calls, the routes through the     *)
(* interface are exactly the networks of the peers' AllowedIPs.  (The      *)
(* statement of the claim; the code violates it.)                          *)
C2_RouteConvergence ==
    \A p \in Procs :
        (Returned(p, "syncRoutes") /\ ~faulted[p])
            => kRoutes[iface[p]] = DesiredRoutes(p)

(* C3.  Orchestration order and short-circuit: the calls of Up come phase  *)
(* by phase, in the order ensure-interface, set-up, push-device-config,    *)
(* syncAddress, syncRoutes, a phase beginning only after a successful call *)
(* of the phase before it; a failed call is the last call of Up, and Up    *)
(* has returned exactly its error; after a failed ConfigureDevice there is *)
(* no call of syncAddress or syncRoutes.                                   *)
C3_OrderAndShortCircuit ==
    \A p \in Procs :
        entry[p] = "Up" =>
            LET l == log[p] IN
            /\ l # <<>> => PhaseOf(l[1].call) = 1
            /\ \A i \in 1..(Len(l) - 1) :
                 \/ PhaseOf(l[i + 1].call) = PhaseOf(l[i].call)
                 \/ /\ PhaseOf(l[i + 1].call) = PhaseOf(l[i].call) + 1
                    /\ l[i].res = "ok"
            /\ \A i \in DOMAIN l :
                 FailedAt(l, i) =>
                    /\ i = Len(l)
                    /\ pc[p] = "done"
                    /\ err[p] = Error(l[i].call, l[i].res)
            /\ err[p] # Nil => pc[p] = "done"
            /\ (\E i \in CallsOf(l, "ConfigureDevice") : l[i].res # "ok")
                 => \A i \in DOMAIN l : PhaseOf(l[i].call) <= 3

\* ConfigureDevice has failed and Up has returned its error.
C3_Witness ==
    \E p \in Procs :
        /\ Returned(p, "Up")
        /\ log[p] # <<>>
        /\ log[p][Len(log[p])] = Call("ConfigureDevice", iface[p], Fault)
        /\ err[p] = Error("ConfigureDevice", Fault)

(* C4.  Address-sync operations: in a pass of syncAddress that the         *)
(* environment did not fail, AddrAdd is issued only for addresses of S not *)
(* in O, and the delete call is issued once for each address of O not in S *)
(* and for no other.  (The statement of the claim; the code violates it.)  *)
C4_AddressOperations ==
    \A p \in Procs :
        (Returned(p, "syncAddress") /\ ~faulted[p]) =>
            LET S == DesiredAddrs(p)
                O == atStart[p].addrs
                l == log[p]
            IN  /\ \A i \in CallsOf(l, "AddrAdd") : ParseAddr(l[i].arg) \in S \ O
                /\ \A i \in CallsOf(l, "AddrDel") : ParseAddr(l[i].arg) \in O \ S
                /\ \A a \in O \ S : Count(l, "AddrDel", IPNetString(a)) = 1

(* C5.  Address idempotence: the second of two invocations of syncAddress  *)
(* in succession, none failed by the environment, issues no mutation and   *)
(* returns nil.  (The statement of the claim; the code violates it.)       *)
C5_AddressIdempotence ==
    \A p \in Procs :
        (Returned(p, "syncAddress") /\ run[p] >= 2 /\ ~faulted[p])
            => MutationsOf(log[p]) = <<>> /\ err[p] = Nil

(* C6.  Route idempotence: the second of two invocations of syncRoutes in  *)
(* succession, none failed by the environment, issues no RouteAdd and no   *)
(* RouteDel and returns nil.  (The statement of the claim; the code        *)
(* violates it.)                                                           *)
C6_RouteIdempotence ==
    \A p \in Procs :
        (Returned(p, "syncRoutes") /\ run[p] >= 2 /\ ~faulted[p])
            => /\ CallsOf(log[p], "RouteAdd") = {}
               /\ CallsOf(log[p], "RouteDel") = {}
               /\ err[p] = Nil

(* C7.  Route-sync minimality and deduplication: in a pass of syncRoutes   *)
(* that the environment did not fail, each allowed IP whose network is not *)
(* observed is added exactly once, each observed route declared by no peer *)
(* is deleted exactly once, and no mutation is issued for a route both     *)
(* observed and declared.  (The statement of the claim; the code violates  *)
(* it.)                                                                    *)
C7_RouteMinimality ==
    \A p \in Procs :
        (Returned(p, "syncRoutes") /\ ~faulted[p]) =>
            LET O == atStart[p].routes
                l == log[p]
            IN  /\ \A d \in AllowedIPsOf(p) :
                     Network(d) \notin O => Count(l, "RouteAdd", IPNetString(d)) = 1
                /\ \A o \in O \ DesiredRoutes(p) :
                     Count(l, "RouteDel", IPNetString(o)) = 1
                /\ \A o \in O \cap DesiredRoutes(p) :
                     \A i \in CallsOf(l, "RouteAdd") \cup CallsOf(l, "RouteDel") :
                        ParseCIDR(l[i].arg) # o

(* C8.  Link lifecycle: Up issues an interface creation (LinkAdd, `ip link *)
(* add`) only when its lookup reported LinkNotFoundError, the interface    *)
(* being absent; when the lookup fails otherwise Up returns that error,    *)
(* having made no other call and changed nothing; and whenever Up is at    *)
(* or past the device-config phase the interface is up, set so by a        *)
(* successful LinkSetUp of this call.                                      *)
C8_LinkLifecycle ==
    \A p \in Procs :
        entry[p] = "Up" =>
            LET l == log[p] IN
            /\ \A i \in CallsOf(l, "LinkAdd") \cup CallsOf(l, "ip link add") :
                 /\ l[1] = Call("LinkByName", iface[p], "LinkNotFoundError")
                 /\ atStart[p].link = "absent"
            /\ (l # <<>> /\ l[1].res = Fault) =>
                 /\ Len(l) = 1
                 /\ pc[p] = "done"
                 /\ err[p] = Error("LinkByName", Fault)
                 /\ kLink[iface[p]] = atStart[p].link
            /\ (\/ pc[p] \in {"up_wgnew", "up_configure"}
                \/ \E i \in DOMAIN l : PhaseOf(l[i].call) >= 3) =>
                 /\ kLink[iface[p]] = "up"
                 /\ \E i \in CallsOf(l, "LinkSetUp") : l[i].res = "ok"

\* Up found no interface, created it, and is about to push the device config.
C8_Witness ==
    \E p \in Procs :
        /\ entry[p] = "Up"
        /\ pc[p] = "up_configure"
        /\ atStart[p].link = "absent"
        /\ CallsOf(log[p], "LinkAdd") # {}
        /\ kLink[iface[p]] = "up"

(* C9.  ParseKey rejects wrong-length keys: for a text that is not valid   *)
(* base64, or whose decoding is not exactly KeyLen bytes long, ParseKey    *)
(* returns an error.  (The statement of the claim; the code violates it.)  *)
C9_ParseKeyRejects ==
    keyResult.called =>
        LET d == Decode(keyText)
        IN  (d.err # Nil \/ Len(d.bytes) # KeyLen) => keyResult.err # Nil

(* C10.  Render emits each set optional field under its own key: the text  *)
(* has the line `PreUp = v`, `PostUp = v`, `PreDown = v`, `PostDown = v`   *)
(* exactly for the hooks that are set, v the hook's value, and one line    *)
(* `Table = n` exactly when Table is not 0.  (The statement of the claim;  *)
(* the code violates it.)                                                  *)
C10_RenderOptionalFields ==
    rendered.called =>
        LET c == cfg[1]
            t == rendered.text
            HookOk(key, v) ==
                /\ v # "" => HasLine(t, key \o " = " \o v)
                /\ \A w \in Hooks : w # v => ~HasLine(t, key \o " = " \o w)
            TableLines == {i \in DOMAIN Lines(t) :
                             \E n \in {0, c.Table} : Lines(t)[i] = "Table = " \o ToString(n)}
        IN  /\ HookOk("PreUp", c.PreUp)
            /\ HookOk("PostUp", c.PostUp)
            /\ HookOk("PreDown", c.PreDown)
            /\ HookOk("PostDown", c.PostDown)
            /\ c.Table # 0 => HasLine(t, "Table = " \o ToString(c.Table))
            /\ Cardinality(TableLines) = IF c.Table # 0 THEN 1 ELSE 0

\* The values an optional field of RenderConfigs can be printed with.
RenderedInts == {0, 1420, 51820}

\* The lines an optional field of the interface section can make.
OptionalLines ==
    {k \o " = " \o ToString(n) : k \in {"ListenPort", "MTU", "Table"}, n \in RenderedInts}
    \cup {"SaveConfig = true", "SaveConfig = false"}
    \cup {k \o " = " \o h : k \in {"PreUp", "PostUp", "PreDown", "PostDown"}, h \in Hooks}

(* C11.  Render omission: the text of a Config whose MTU and Table are 0,  *)
(* whose ListenPort is 0 (absent, or present and 0), whose SaveConfig is   *)
(* false and whose four hooks are empty has no line of an optional field,  *)
(* and nothing, not an empty line either, between the PrivateKey line and  *)
(* the first [Peer] line or the end of the text.  (The statement of the    *)
(* claim; the code violates it.)                                           *)
C11_RenderOmission ==
    LET c == cfg[1]
        L == Lines(rendered.text)
    IN  (/\ rendered.called
         /\ c.MTU = 0 /\ c.Table = 0 /\ c.ListenPort \in {<<>>, <<0>>}
         /\ ~c.SaveConfig
         /\ c.PreUp = "" /\ c.PostUp = "" /\ c.PreDown = "" /\ c.PostDown = "")
        => /\ \A i \in DOMAIN L : L[i] \notin OptionalLines
           /\ \E i \in DOMAIN L :
                /\ L[i] = "PrivateKey = " \o Join(serializeKey(c.PrivateKey))
                /\ i < Len(L)
                /\ IF c.Peers = <<>> THEN i + 1 = Len(L) /\ L[i + 1] = ""
                   ELSE L[i + 1] = "[Peer]"

\* The commands Up hands to a shell or to exec: the only one is the
\* `ip link add` of wg.go:121.  A hook would be run as call "bash".
Executions(l, cmd) == {i \in DOMAIN l : l[i].call = "bash" /\ l[i].arg = cmd}

(* C12.  Lifecycle hooks: when PreUp is set, Up runs it once, before any   *)
(* LinkAdd, `ip link add` or LinkSetUp; when PostUp is set and Up has      *)
(* configured the device, Up runs PostUp once, after the ConfigureDevice   *)
(* and after PreUp.  (The statement of the claim; the code violates it.)   *)
C12_LifecycleHooks ==
    \A p \in Procs :
        entry[p] = "Up" =>
            LET l == log[p]
                c == cfg[p]
                Changes == CallsOf(l, "LinkAdd") \cup CallsOf(l, "ip link add")
                               \cup CallsOf(l, "LinkSetUp")
                Configured == {i \in CallsOf(l, "ConfigureDevice") : l[i].res = "ok"}
            IN  /\ (c.PreUp # "" /\ Changes # {}) =>
                    /\ Cardinality(Executions(l, c.PreUp)) = 1
                    /\ \A i \in Executions(l, c.PreUp), j \in Changes : i < j
                /\ (c.PostUp # "" /\ Returned(p, "Up") /\ err[p] = Nil) =>
                    /\ Cardinality(Executions(l, c.PostUp)) = 1
                    /\ \A i \in Executions(l, c.PostUp), j \in Configured : j < i

(* C13.  Routing table selection: when Config.Table is an explicit table   *)
(* id (not 0, not the main table), the routes Up adds go to that table,    *)
(* so none is added to the main table: the routes of the main table        *)
(* through the interface are those it had when Up started.  (The           *)
(* statement of the claim; the code violates it.)                          *)
C13_RoutingTable ==
    \A p \in Procs :
        (entry[p] = "Up" /\ cfg[p].Table \notin {0, MainTable})
            => kRoutes[iface[p]] \subseteq atStart[p].routes

(* C14.  Key round-trip: ParseKey of the text serializeKey gives for a key *)
(* k returns k and no error.                                               *)
C14_KeyRoundTrip ==
    (keyResult.called /\ keyText = serializeKey(cfg[1].PrivateKey))
        => keyResult.key = cfg[1].PrivateKey /\ keyResult.err = Nil

\* ParseKey has returned the key 255, ..., 255 from its serialization.
C14_Witness ==
    /\ keyResult.called
    /\ cfg[1].PrivateKey = [i \in 1..KeyLen |-> 255]
    /\ keyText = serializeKey(cfg[1].PrivateKey)
    /\ keyResult.key = cfg[1].PrivateKey

\* The arguments of the calls `call` of a log, in order.
RECURSIVE ArgsOf(_, _)
ArgsOf(l, call) ==
    IF l = <<>> THEN <<>>
    ELSE (IF Head(l).call = call THEN <<Head(l).arg>> ELSE <<>>)
         \o ArgsOf(Tail(l), call)

\* The keys of a list that are not in `seen` and not earlier in the list: the
\* entries the add loops find not present.
RECURSIVE NewKeys(_, _)
NewKeys(keys, seen) ==
    IF keys = <<>> THEN <<>>
    ELSE IF Head(keys) \in seen THEN NewKeys(Tail(keys), seen)
    ELSE <<Head(keys)>> \o NewKeys(Tail(keys), seen \cup {Head(keys)})

\* The allowed IPs of a list of peers, in the order syncRoutes meets them.
RECURSIVE Flat(_)
Flat(peers) ==
    IF peers = <<>> THEN <<>> ELSE Head(peers).AllowedIPs \o Flat(Tail(peers))

\* The last call of pass p is a failed `call`.
LastCallFailed(p, call) ==
    /\ log[p] # <<>>
    /\ log[p][Len(log[p])].call = call
    /\ log[p][Len(log[p])].res # "ok"

\* Every call `call` of the log but the last call of the log succeeded.
AllButLastOk(l, call) == \A i \in CallsOf(l, call) : i < Len(l) => l[i].res = "ok"

(* C15.  Partial failure inside a sync, within Up: the removal loop of a   *)
(* sync begins only when every desired entry has been through the add      *)
(* loop; when the add of the k-th desired entry fails, Up has returned     *)
(* that error, the adds issued are exactly those of the entries 1..k that  *)
(* were not present, all but the last successful, no delete and no call of *)
(* a later phase was issued, and the interface carries what it had at the  *)
(* start and the entries added before the failure.                         *)
C15_PartialFailure ==
    \A p \in Procs :
        entry[p] = "Up" =>
            LET l == log[p]
                c == cfg[p]
                as == c.Address
                ips == Flat(c.Peers)
                ka == addrIdx[p]
                kr == Len(Flat(SubSeq(c.Peers, 1, peerIdx[p] - 1))) + ipIdx[p]
                seenAddrs == {IPNetString(a) : a \in atStart[p].addrs}
                seenRoutes == {IF DstIsNil(r) THEN NilString ELSE IPNetString(r) :
                                 r \in atStart[p].routes}
            IN  /\ pc[p] = "addr_clean" => addrIdx[p] > Len(as)
                /\ pc[p] = "route_clean" => peerIdx[p] > Len(c.Peers)
                /\ (LastCallFailed(p, "AddrAdd") /\ ka <= Len(as)) =>
                     /\ pc[p] = "done"
                     /\ err[p] = Error("AddrAdd", l[Len(l)].res)
                     /\ ArgsOf(l, "AddrAdd") =
                            NewKeys([i \in 1..ka |-> IPNetString(as[i])], seenAddrs)
                     /\ AllButLastOk(l, "AddrAdd")
                     /\ \A i \in DOMAIN l : PhaseOf(l[i].call) <= 4 /\ l[i].call # "AddrDel"
                     /\ kAddrs[iface[p]] = atStart[p].addrs \cup {as[i] : i \in 1..(ka - 1)}
                     /\ kRoutes[iface[p]] = atStart[p].routes
                /\ LastCallFailed(p, "RouteAdd") =>
                     /\ pc[p] = "done"
                     /\ err[p] = Error("RouteAdd", l[Len(l)].res)
                     /\ ArgsOf(l, "RouteAdd") =
                            NewKeys([i \in 1..kr |-> IPNetString(ips[i])], seenRoutes)
                     /\ AllButLastOk(l, "RouteAdd")
                     /\ CallsOf(l, "RouteDel") = {}
                     /\ kRoutes[iface[p]] = atStart[p].routes \cup {ips[i] : i \in 1..(kr - 1)}

\* The add of the second desired address failed after the first was added:
\* Up has returned, the first address is on the interface.
C15_Witness ==
    \E p \in Procs :
        /\ Returned(p, "Up")
        /\ LastCallFailed(p, "AddrAdd")
        /\ addrIdx[p] = 2
        /\ Len(ArgsOf(log[p], "AddrAdd")) = 2
        /\ cfg[p].Address[1] \in kAddrs[iface[p]] \ atStart[p].addrs

(* C16.  A desired address that the interface carries when syncAddress     *)
(* starts, IPv4 or IPv6, is never re-added: syncAddress issues no AddrAdd  *)
(* for it.  (The statement of the claim; the code violates it.)            *)
C16_PresentNeverReadded ==
    \A p \in Procs :
        entry[p] = "syncAddress" =>
            \A a \in DesiredAddrs(p) \cap atStart[p].addrs :
                Count(log[p], "AddrAdd", IPNetString(a)) = 0

(* C17.  Canonical matching of routes: for an allowed IP whose network the *)
(* interface has a route to when syncRoutes starts, syncRoutes issues no   *)
(* RouteAdd for the allowed IP and no RouteDel for the route, also when    *)
(* the allowed IP has host bits set and when the route is the default      *)
(* route.  (The statement of the claim; the code violates it.)             *)
C17_CanonicalMatching ==
    \A p \in Procs :
        entry[p] = "syncRoutes" =>
            \A d \in AllowedIPsOf(p) :
                Network(d) \in atStart[p].routes =>
                    /\ Count(log[p], "RouteAdd", IPNetString(d)) = 0
                    /\ Count(log[p], "RouteDel", IPNetString(Network(d))) = 0

\* Pass p ended as a call of Up on an interface with no address and no route
\* ends when nothing else touches the kernel and no call fails from outside:
\* it returned nil, the interface carries the desired addresses and routes.
EndedAsAlone(p) ==
    /\ err[p] = Nil
    /\ kAddrs[iface[p]] = DesiredAddrs(p)
    /\ kRoutes[iface[p]] = DesiredRoutes(p)

(* C18.  Independence across interfaces: with two calls of Up for two      *)
(* different interfaces interleaved, an interface carries only what it had *)
(* and what its own pass desires, and a pass the environment did not fail  *)
(* ends as when run alone: nil returned, the interface carrying exactly    *)
(* the desired addresses and routes.  (The statement of the claim; the     *)
(* code violates it.)                                                      *)
C18_Independence ==
    \A p \in Procs :
        /\ kAddrs[iface[p]] \subseteq atStart[p].addrs \cup DesiredAddrs(p)
        /\ kRoutes[iface[p]] \subseteq atStart[p].routes \cup DesiredRoutes(p)
        /\ (Returned(p, "Up") /\ ~faulted[p]) => EndedAsAlone(p)

\* The addresses that two entries or more of a list are.
Duplicated(as) == {as[i] : i \in {j \in DOMAIN as : \E h \in DOMAIN as : h # j /\ as[h] = as[j]}}

(* C19.  Duplicate desired addresses: for an address that two entries of   *)
(* cfg.Address are and that the interface does not carry when syncAddress  *)
(* starts, syncAddress never issues a second AddrAdd; when it has returned *)
(* and the environment failed no call, it issued exactly one, which        *)
(* succeeded, the address is on the interface, and with no other address   *)
(* to remove syncAddress returned nil.  (The statement of the claim; the   *)
(* code violates it.)                                                      *)
C19_DuplicateAddresses ==
    \A p \in Procs :
        entry[p] = "syncAddress" =>
            \A a \in Duplicated(cfg[p].Address) \ atStart[p].addrs :
                LET l == log[p]
                    k == IPNetString(a)
                IN  /\ Count(l, "AddrAdd", k) <= 1
                    /\ (Returned(p, "syncAddress") /\ ~faulted[p]) =>
                         /\ Count(l, "AddrAdd", k) = 1
                         /\ \A i \in CallsOf(l, "AddrAdd") : l[i].arg = k => l[i].res = "ok"
                         /\ a \in kAddrs[iface[p]]
                         /\ atStart[p].addrs \subseteq DesiredAddrs(p) => err[p] = Nil

\* The second of the two calls ended badly: it failed though the environment
\* failed none of its calls, or it left the interface with addresses or
\* routes other than those it desires.
BadEnd(p) ==
    /\ Returned(p, "Up")
    /\ ~faulted[p]
    /\ ~EndedAsAlone(p)

(* C20.  Same-interface race, the serialized half: when the caller makes   *)
(* the second call of Up for the interface after the first has returned,   *)
(* the second call, the last to finish, does not fail on an add or a       *)
(* delete and leaves the interface with exactly its desired addresses and  *)
(* routes.  (The statement of the claim; the code violates it.)            *)
C20_SerializedSafe == ~BadEnd(2)

\* The race of the claim's other half: both calls have returned, the
\* environment failed neither, and one of them failed on an add.
RaceOutcome ==
    /\ \A p \in Procs : Returned(p, "Up") /\ ~faulted[p]
    /\ cfg[1] = cfg[2]
    /\ \E p \in Procs : LastCallFailed(p, "AddrAdd") \/ LastCallFailed(p, "RouteAdd")

====
